---- MODULE Spec2Model ----
(***************************************************************************)
(* Model of src/main.rs of ocpp_log_viewer: the startup scan of the trace  *)
(* files, the per-line filter (field count, timestamp, payload decode),    *)
(* the measurand extractor and the emission of one record to the rerun     *)
(* recording stream.                                                       *)
(*                                                                         *)
(* Numbers: an f64 channel value is modelled as an integer count of        *)
(* tenths (10.5 is 105, 0.0 is 0); floating-point rounding, NaN and the    *)
(* infinities are outside the model.                                       *)
(***************************************************************************)
EXTENDS Integers, Sequences, FiniteSets, TLC

\* Bounds of the model.
MaxFiles == 2
MaxSamples == 2

----------------------------------------------------------------------------
(* Option<f64>                                                             *)
None == [some |-> FALSE, v |-> 0]
Some(x) == [some |-> TRUE, v |-> x]
UnwrapOr(o, d) == IF o.some THEN o.v ELSE d

(* The ten local variables of main, lines 74-86.                           *)
Channels ==
    {"current_import_l1", "current_import_l2", "current_offered", "power_offered",
     "voltage_l1", "voltage_l2", "voltage_l3",
     "power_active_import_l1", "power_active_import_l2", "power_active_import_l3"}

NoChannels == [c \in Channels |-> None]

(* The value strings of the model and str::parse::<f64> on them (tenths).  *)
ValueStrings == {"10.5", "abc"}
ParseF64(s) ==
    CASE s = "10.5" -> [ok |-> TRUE, v |-> 105]
      [] s = "7" -> [ok |-> TRUE, v |-> 70]
      [] s = "-3.2" -> [ok |-> TRUE, v |-> -32]
      [] s = "0" -> [ok |-> TRUE, v |-> 0]
      [] OTHER -> [ok |-> FALSE, v |-> 0]

(* Variant: a sentinel instead of 0.0 on a parse failure.                  *)
Coerce_Sentinel(s) == IF ParseF64(s).ok THEN ParseF64(s).v ELSE -1

(* sampled_value.value.parse::<f64>().unwrap_or(0.0)                       *)
Coerce(s) == IF ParseF64(s).ok THEN ParseF64(s).v ELSE 0

(* Option<Measurand> and Option<Phase> of a SampledValue; "None" is the    *)
(* absent field, the last element of each set stands for the variants the  *)
(* match does not name.                                                    *)
Measurands ==
    {"None", "CurrentImport", "CurrentOffered", "PowerOffered", "PowerActiveImport",
     "Voltage", "EnergyActiveImportRegister"}
Phases == {"None", "L1", "L2", "L3", "N"}

SampledValues == [value : ValueStrings, measurand : Measurands, phase : Phases]

(* Variant: the assignment only fills a local that is still None.          *)
Set_FirstWins(ch, c, x) == IF ch[c].some THEN ch ELSE [ch EXCEPT ![c] = Some(x)]

(* x = Some(..), the assignment of every arm that names a local.           *)
Set(ch, c, x) == [ch EXCEPT ![c] = Some(x)]

(* Variant: the CurrentImport arm also takes L3, into the L2 local.        *)
ApplySample_ImportL3(ch, sv) ==
    CASE sv.measurand = "CurrentImport" ->
           (CASE sv.phase = "L1" -> Set(ch, "current_import_l1", Coerce(sv.value))
              [] sv.phase = "L2" -> Set(ch, "current_import_l2", Coerce(sv.value))
              [] sv.phase = "L3" -> Set(ch, "current_import_l2", Coerce(sv.value))
              [] OTHER -> ch)
      [] sv.measurand = "CurrentOffered" -> Set(ch, "current_offered", Coerce(sv.value))
      [] sv.measurand = "PowerOffered" -> Set(ch, "power_offered", Coerce(sv.value))
      [] sv.measurand = "PowerActiveImport" ->
           (CASE sv.phase = "L1" -> Set(ch, "power_active_import_l1", Coerce(sv.value))
              [] sv.phase = "L2" -> Set(ch, "power_active_import_l2", Coerce(sv.value))
              [] sv.phase = "L3" -> Set(ch, "power_active_import_l3", Coerce(sv.value))
              [] OTHER -> ch)
      [] sv.measurand = "Voltage" ->
           (CASE sv.phase = "L1" -> Set(ch, "voltage_l1", Coerce(sv.value))
              [] sv.phase = "L2" -> Set(ch, "voltage_l2", Coerce(sv.value))
              [] sv.phase = "L3" -> Set(ch, "voltage_l3", Coerce(sv.value))
              [] OTHER -> ch)
      [] OTHER -> ch

(* The body of the inner loop, lines 90-146: one sampled value applied to  *)
(* the ten locals.                                                         *)
ApplySample(ch, sv) ==
    CASE sv.measurand = "CurrentImport" ->
           (CASE sv.phase = "L1" -> Set(ch, "current_import_l1", Coerce(sv.value))
              [] sv.phase = "L2" -> Set(ch, "current_import_l2", Coerce(sv.value))
              [] OTHER -> ch)
      [] sv.measurand = "CurrentOffered" -> Set(ch, "current_offered", Coerce(sv.value))
      [] sv.measurand = "PowerOffered" -> Set(ch, "power_offered", Coerce(sv.value))
      [] sv.measurand = "PowerActiveImport" ->
           (CASE sv.phase = "L1" -> Set(ch, "power_active_import_l1", Coerce(sv.value))
              [] sv.phase = "L2" -> Set(ch, "power_active_import_l2", Coerce(sv.value))
              [] sv.phase = "L3" -> Set(ch, "power_active_import_l3", Coerce(sv.value))
              [] OTHER -> ch)
      [] sv.measurand = "Voltage" ->
           (CASE sv.phase = "L1" -> Set(ch, "voltage_l1", Coerce(sv.value))
              [] sv.phase = "L2" -> Set(ch, "voltage_l2", Coerce(sv.value))
              [] sv.phase = "L3" -> Set(ch, "voltage_l3", Coerce(sv.value))
              [] OTHER -> ch)
      [] OTHER -> ch

(* for sampled_value in &meter_value.sampled_value, line 89                *)
RECURSIVE WalkSampled(_, _)
WalkSampled(ch, svs) ==
    IF svs = << >> THEN ch
    ELSE WalkSampled(ApplySample(ch, Head(svs)), Tail(svs))

(* for meter_value in &meter_vaules_request.meter_value, line 88           *)
RECURSIVE WalkMeterValues(_, _)
WalkMeterValues(ch, mvs) ==
    IF mvs = << >> THEN ch
    ELSE WalkMeterValues(WalkSampled(ch, Head(mvs).sampled_value), Tail(mvs))

(* Lines 74-148: the locals start as None for every record.                *)
Extract(msg) == WalkMeterValues(NoChannels, msg.meter_value)

----------------------------------------------------------------------------
(* Text.  A character of a file is a record [k, a, b, c]: a whitespace     *)
(* character (a is its code point), or a maximal run of non-whitespace     *)
(* characters of a known shape: a date dddd-dd-dd (a, b, c its numbers), a *)
(* time dd:dd:dd, the offset "+00:00", a compact JSON document (a indexes  *)
(* Payloads) or any other word.  A string is a sequence of such runs.      *)
Sp == [k |-> "ws", a |-> 32, b |-> 0, c |-> 0]
Tab == [k |-> "ws", a |-> 9, b |-> 0, c |-> 0]
Cr == [k |-> "ws", a |-> 13, b |-> 0, c |-> 0]
Nl == [k |-> "ws", a |-> 10, b |-> 0, c |-> 0]
DateTok(y, m, d) == [k |-> "date", a |-> y, b |-> m, c |-> d]
TimeTok(h, mi, s) == [k |-> "time", a |-> h, b |-> mi, c |-> s]
Utc == [k |-> "tz", a |-> 0, b |-> 0, c |-> 0]
Word == [k |-> "word", a |-> 0, b |-> 0, c |-> 0]
JsonTok(i) == [k |-> "json", a |-> i, b |-> 0, c |-> 0]

(* char::is_whitespace                                                     *)
IsWhitespace(ch) == ch.k = "ws"

(* str::split("\n"), line 29: the pieces between newline characters; a     *)
(* string with no newline is one piece, the empty string included.         *)
RECURSIVE SplitNewline(_)
SplitNewline(s) ==
    IF \A i \in 1..Len(s) : s[i] # Nl THEN << s >>
    ELSE LET i == CHOOSE j \in 1..Len(s) : s[j] = Nl /\ \A h \in 1..(j - 1) : s[h] # Nl
         IN << SubSeq(s, 1, i - 1) >> \o SplitNewline(SubSeq(s, i + 1, Len(s)))

(* str::split(char::is_whitespace), lines 46-49: a new field starts after  *)
(* every single whitespace character.                                      *)
RECURSIVE SplitWhitespace(_)
SplitWhitespace(s) ==
    IF \A i \in 1..Len(s) : ~IsWhitespace(s[i]) THEN << s >>
    ELSE LET i == CHOOSE j \in 1..Len(s) :
                      IsWhitespace(s[j]) /\ \A h \in 1..(j - 1) : ~IsWhitespace(s[h])
         IN << SubSeq(s, 1, i - 1) >> \o SplitWhitespace(SubSeq(s, i + 1, Len(s)))

(* Variant: the pieces of a file are put in front of the earlier ones.     *)
PushLines_Front(cs, text) == SplitNewline(text) \o cs

(* contents.push(e) for every piece of the file, lines 29-31.              *)
PushLines(cs, text) == cs \o SplitNewline(text)

(* format!("{} {} +00:00", date, time), line 60.                           *)
FormatDateTime(date, time) == date \o << Sp >> \o time \o << Sp, Utc >>

(* chrono: the calendar behind DateTime::parse_from_str and timestamp().   *)
IsLeapYear(y) == (y % 4 = 0 /\ y % 100 # 0) \/ y % 400 = 0
DaysInMonth(y, m) ==
    CASE m \in {1, 3, 5, 7, 8, 10, 12} -> 31
      [] m \in {4, 6, 9, 11} -> 30
      [] m = 2 -> (IF IsLeapYear(y) THEN 29 ELSE 28)
      [] OTHER -> 0
DaysFromCivil(y, m, d) ==
    LET yy == IF m <= 2 THEN y - 1 ELSE y
        era == yy \div 400
        yoe == yy - era * 400
        mp == IF m > 2 THEN m - 3 ELSE m + 9
        doy == (153 * mp + 2) \div 5 + d - 1
        doe == yoe * 365 + yoe \div 4 - yoe \div 100 + doy
    IN era * 146097 + doe - 719468

(* DateTime::parse_from_str(s, "%Y-%m-%d %H:%M:%S %z"), line 65, and the    *)
(* seconds since the epoch of the result, line 158.                        *)
ParseFromStr(s) ==
    IF /\ Len(s) = 5
       /\ s[1].k = "date" /\ s[2] = Sp /\ s[3].k = "time" /\ s[4] = Sp /\ s[5] = Utc
       /\ s[1].b \in 1..12 /\ s[1].c \in 1..DaysInMonth(s[1].a, s[1].b)
       /\ s[3].a \in 0..23 /\ s[3].b \in 0..59 /\ s[3].c \in 0..59
    THEN [ok |-> TRUE,
          secs |-> DaysFromCivil(s[1].a, s[1].b, s[1].c) * 86400
                     + s[3].a * 3600 + s[3].b * 60 + s[3].c]
    ELSE [ok |-> FALSE, secs |-> 0]

(* SampledValue and MeterValue of rust_ocpp, as far as main reads them.    *)
SV(v, m, p) == [value |-> v, measurand |-> m, phase |-> p]
MV(svs) == [sampled_value |-> svs]

(* The JSON documents of the model's trace files.                          *)
Payloads ==
    << [shape |-> "MeterValues",
        meter_value |-> << MV(<< SV("10.5", "Voltage", "L1") >>) >>],
       [shape |-> "MeterValues",
        meter_value |->
          << MV(<< SV("7", "PowerActiveImport", "L1"), SV("10.5", "PowerActiveImport", "L2") >>),
             MV(<< SV("abc", "PowerActiveImport", "L3"), SV("10.5", "PowerActiveImport", "L1"),
                   SV("-3.2", "CurrentImport", "L1") >>) >>],
       [shape |-> "Heartbeat", meter_value |-> << >>],
       [shape |-> "Malformed", meter_value |-> << >>] >>

(* serde_json::from_str::<MeterValuesRequest>(json), lines 70-72.          *)
Decode(json) ==
    IF Len(json) = 1 /\ json[1].k = "json" /\ Payloads[json[1].a].shape = "MeterValues"
    THEN [ok |-> TRUE, msg |-> [meter_value |-> Payloads[json[1].a].meter_value]]
    ELSE [ok |-> FALSE, msg |-> [meter_value |-> << >>]]

(* Variant: the field count test only rejects lines that are too short.    *)
Rejected_AtLeast10(line) ==
    LET line_parts == SplitWhitespace(line)
    IN IF Len(line_parts) < 10 THEN TRUE
       ELSE LET date_time == FormatDateTime(line_parts[1], line_parts[2])
            IN IF date_time = << >> THEN TRUE
               ELSE IF ~ParseFromStr(date_time).ok THEN TRUE
               ELSE ~Decode(line_parts[10]).ok

(* Lines 46-72: TRUE when the loop body ends in a continue, or falls past  *)
(* the if let, without a sink call.                                        *)
Rejected(line) ==
    LET line_parts == SplitWhitespace(line)
    IN IF Len(line_parts) # 10 THEN TRUE
       ELSE LET date_time == FormatDateTime(line_parts[1], line_parts[2])
            IN IF date_time = << >> THEN TRUE
               ELSE IF ~ParseFromStr(date_time).ok THEN TRUE
               ELSE ~Decode(line_parts[10]).ok

----------------------------------------------------------------------------
(* The recording stream.  An entity path is [dir, path]: format!("{}<path>", *)
(* dir) with dir a string of the line, or the literal <path> when dir is   *)
(* empty.                                                                  *)
Literal(p) == [dir |-> << >>, path |-> p]
Format1(dir, p) == [dir |-> dir, path |-> p]

Call(op, name, val) == [op |-> op, name |-> name, val |-> val]

(* Variant: the time is set after the first scalar write.                  *)
EmitPlan_TimeLate(date, secs, ch) ==
    << Call("log_static", Format1(date, "/current/import/L1"), 0),
       Call("log", Format1(date, "/current/import/L1"), UnwrapOr(ch["current_import_l1"], 0)),
       Call("set_time", Literal("time"), secs),
       Call("log", Literal("current/import/L2"), UnwrapOr(ch["current_import_l2"], 0)),
       Call("log", Literal("current/offered"), UnwrapOr(ch["current_offered"], 0)),
       Call("log", Literal("power/offered"), UnwrapOr(ch["power_offered"], 0)),
       Call("log", Literal("voltage/L1"), UnwrapOr(ch["voltage_l1"], 0)),
       Call("log", Literal("voltage/L2"), UnwrapOr(ch["voltage_l2"], 0)),
       Call("log", Literal("voltage/L3"), UnwrapOr(ch["voltage_l3"], 0)),
       Call("log", Literal("power/active/import/L1"), UnwrapOr(ch["power_active_import_l1"], 0)),
       Call("log", Literal("power/active/import/L2"), UnwrapOr(ch["power_active_import_l2"], 0)),
       Call("log", Literal("power/active/import/L3"), UnwrapOr(ch["power_active_import_l3"], 0)),
       Call("log", Literal("power/active/import/sum"),
            UnwrapOr(ch["power_active_import_l1"], 0)
              + UnwrapOr(ch["power_active_import_l2"], 0)
              + UnwrapOr(ch["power_active_import_l3"], 0)) >>

(* Variant: the sum leaves out the third phase.                            *)
EmitPlan_SumTwo(date, secs, ch) ==
    << Call("log_static", Format1(date, "/current/import/L1"), 0),
       Call("set_time", Literal("time"), secs),
       Call("log", Format1(date, "/current/import/L1"), UnwrapOr(ch["current_import_l1"], 0)),
       Call("log", Literal("current/import/L2"), UnwrapOr(ch["current_import_l2"], 0)),
       Call("log", Literal("current/offered"), UnwrapOr(ch["current_offered"], 0)),
       Call("log", Literal("power/offered"), UnwrapOr(ch["power_offered"], 0)),
       Call("log", Literal("voltage/L1"), UnwrapOr(ch["voltage_l1"], 0)),
       Call("log", Literal("voltage/L2"), UnwrapOr(ch["voltage_l2"], 0)),
       Call("log", Literal("voltage/L3"), UnwrapOr(ch["voltage_l3"], 0)),
       Call("log", Literal("power/active/import/L1"), UnwrapOr(ch["power_active_import_l1"], 0)),
       Call("log", Literal("power/active/import/L2"), UnwrapOr(ch["power_active_import_l2"], 0)),
       Call("log", Literal("power/active/import/L3"), UnwrapOr(ch["power_active_import_l3"], 0)),
       Call("log", Literal("power/active/import/sum"),
            UnwrapOr(ch["power_active_import_l1"], 0)
              + UnwrapOr(ch["power_active_import_l2"], 0)) >>

(* Lines 150-207: the calls on rec made for one record, in program order.  *)
EmitPlan(date, secs, ch) ==
    << Call("log_static", Format1(date, "/current/import/L1"), 0),
       Call("set_time", Literal("time"), secs),
       Call("log", Format1(date, "/current/import/L1"), UnwrapOr(ch["current_import_l1"], 0)),
       Call("log", Literal("current/import/L2"), UnwrapOr(ch["current_import_l2"], 0)),
       Call("log", Literal("current/offered"), UnwrapOr(ch["current_offered"], 0)),
       Call("log", Literal("power/offered"), UnwrapOr(ch["power_offered"], 0)),
       Call("log", Literal("voltage/L1"), UnwrapOr(ch["voltage_l1"], 0)),
       Call("log", Literal("voltage/L2"), UnwrapOr(ch["voltage_l2"], 0)),
       Call("log", Literal("voltage/L3"), UnwrapOr(ch["voltage_l3"], 0)),
       Call("log", Literal("power/active/import/L1"), UnwrapOr(ch["power_active_import_l1"], 0)),
       Call("log", Literal("power/active/import/L2"), UnwrapOr(ch["power_active_import_l2"], 0)),
       Call("log", Literal("power/active/import/L3"), UnwrapOr(ch["power_active_import_l3"], 0)),
       Call("log", Literal("power/active/import/sum"),
            UnwrapOr(ch["power_active_import_l1"], 0)
              + UnwrapOr(ch["power_active_import_l2"], 0)
              + UnwrapOr(ch["power_active_import_l3"], 0)) >>

(* Variant: the result of the call is dropped.                             *)
AfterCall_Ignore(ok, next) == next

(* The ? after a call on rec, lines 43 and 156-207: where main goes on.    *)
AfterCall(ok, next) == IF ok THEN next ELSE "failed"

----------------------------------------------------------------------------
(* The trace files of the model.                                           *)
RECURSIVE Join(_, _)
Join(parts, sep) ==
    IF Len(parts) = 0 THEN << >>
    ELSE IF Len(parts) = 1 THEN parts[1]
    ELSE parts[1] \o << sep >> \o Join(Tail(parts), sep)

W == << Word >>
Date1 == << DateTok(2024, 1, 1) >>
Date2 == << DateTok(2024, 2, 29) >>
Date3 == << DateTok(2023, 12, 31) >>
DateBad == << DateTok(2023, 2, 29) >>
Time1 == << TimeTok(12, 0, 0) >>
Time2 == << TimeTok(23, 59, 59) >>
TimeBad == << TimeTok(24, 0, 0) >>
Json(i) == << JsonTok(i) >>

LineA == Join(<< Date1, Time1, W, W, W, W, W, W, W, Json(1) >>, Sp)
LineB == Join(<< Date2, Time2, W, W, W, W, W, W, W, Json(2) >>, Tab)
LineGap == Join(<< Date3, Time1, << >>, W, W, W, W, W, W, Json(2) >>, Sp)
Line9 == Join(<< Date1, Time1, W, W, W, W, W, W, Json(1) >>, Sp)
Line11 == Join(<< Date1, Time1, W, << >>, W, W, W, W, W, W, Json(1) >>, Sp)
LineCr == LineA \o << Cr >>
LineBadDate == Join(<< DateBad, Time1, W, W, W, W, W, W, W, Json(1) >>, Sp)
LineBadTime == Join(<< Date1, TimeBad, W, W, W, W, W, W, W, Json(1) >>, Sp)
LineNoDate == Join(<< W, Time1, W, W, W, W, W, W, W, Json(1) >>, Sp)
LineHeartbeat == Join(<< Date1, Time1, W, W, W, W, W, W, W, Json(3) >>, Sp)
LineMalformed == Join(<< Date1, Time1, W, W, W, W, W, W, W, Json(4) >>, Sp)
LineHeader == Join(<< W, W, W >>, Sp)

Texts ==
    { LineA,
      Join(<< LineB, << >> >>, Nl),
      Join(<< LineHeader, Line9, LineB >>, Nl),
      Join(<< LineBadDate, LineGap >>, Nl),
      Join(<< LineBadTime, LineHeartbeat, LineA, << >> >>, Nl),
      Join(<< LineMalformed, Line11, LineNoDate >>, Nl),
      Join(<< LineCr, LineB >>, Nl),
      << >> }

----------------------------------------------------------------------------
Msg(mvs) == [meter_value |-> mvs]

(* The values a local can hold after the loops, from which the emission   *)
(* on its own starts.                                                      *)
PowerLocals == {None, Some(0), Some(70), Some(105)}
OtherLocals == {None, Some(105)}
PowerChannels == {"power_active_import_l1", "power_active_import_l2", "power_active_import_l3"}

----------------------------------------------------------------------------
VARIABLES
    pc,         \* where main is: scan, spawn, loop, emit, done, failed, panicked
    scanned,    \* entries the glob iterator has yielded so far
    contents,   \* Vec<String> contents, line 20
    idx,        \* position of the for loop of line 45 in contents
    step,       \* the next call of the record being emitted
    date,       \* line_parts[0] of the record being emitted
    timestamp,  \* timestamp.timestamp() of the record being emitted
    chan,       \* the ten Option<f64> locals of the record being emitted
    sink,       \* the calls made on rec so far: [op, name, val, time, line, ok]
    sinkTime,   \* the recording stream's current "time", -1 while unset
    opened,     \* the recording stream has been spawned
    result,     \* how main ended: running, ok, err, panic
    seen,       \* history: the texts of the files read, in discovery order
    badEntry,   \* history: an entry was a glob error or could not be read
    xmsg,       \* extractor alone: the part of the decoded message walked so far
    xchan,      \* extractor alone: the ten locals at that point of the loops
    xplan,      \* emission alone: the calls of lines 150-207 for the locals xchan
    xpc         \* walk (extractor alone), extracted or emitted (emission alone), off

vars == << pc, scanned, contents, idx, step, date, timestamp, chan, sink, sinkTime,
           opened, result, seen, badEntry, xmsg, xchan, xplan, xpc >>
runVars == << pc, scanned, contents, idx, step, date, timestamp, chan, sink, sinkTime,
              opened, result, seen, badEntry >>
xVars == << xmsg, xchan, xplan, xpc >>

RunIdle(p) ==
    /\ pc = p /\ scanned = 0 /\ contents = << >> /\ idx = 1 /\ step = 1
    /\ date = << >> /\ timestamp = 0 /\ chan = NoChannels
    /\ sink = << >> /\ sinkTime = -1 /\ opened = FALSE /\ result = "running"
    /\ seen = << >> /\ badEntry = FALSE

Init ==
    /\ RunIdle("scan")
    /\ xmsg = Msg(<< >>) /\ xchan = NoChannels /\ xplan = << >> /\ xpc = "off"

(* Ok(path), Ok(c): the file's pieces are pushed, lines 25-31.             *)
ScanFile ==
    /\ pc = "scan" /\ scanned < MaxFiles
    /\ \E text \in Texts :
         /\ contents' = PushLines(contents, text)
         /\ seen' = Append(seen, text)
    /\ scanned' = scanned + 1
    /\ UNCHANGED << pc, idx, step, date, timestamp, chan, sink, sinkTime, opened, result,
                    badEntry >>

(* Ok(path), Err(_): panic!, lines 33-36.                                  *)
ScanReadError ==
    /\ pc = "scan" /\ scanned < MaxFiles
    /\ pc' = "panicked" /\ result' = "panic"
    /\ badEntry' = TRUE
    /\ scanned' = scanned + 1
    /\ UNCHANGED << contents, idx, step, date, timestamp, chan, sink, sinkTime, opened, seen >>

(* Err(e) => println!, line 39: the for loop goes on with the next entry.  *)
ScanGlobError ==
    /\ pc = "scan" /\ scanned < MaxFiles
    /\ badEntry' = TRUE
    /\ scanned' = scanned + 1
    /\ UNCHANGED << pc, contents, idx, step, date, timestamp, chan, sink, sinkTime, opened,
                    result, seen >>

(* The glob iterator is exhausted, line 41.                                *)
ScanEnd ==
    /\ pc = "scan"
    /\ pc' = "spawn"
    /\ UNCHANGED << scanned, contents, idx, step, date, timestamp, chan, sink, sinkTime,
                    opened, result, seen, badEntry >>

(* RecordingStreamBuilder::new(..).spawn()?, line 43.                      *)
Spawn ==
    /\ pc = "spawn"
    /\ \E ok \in BOOLEAN :
         /\ pc' = AfterCall(ok, "loop")
         /\ opened' = ok
         /\ result' = IF ok THEN result ELSE "err"
    /\ UNCHANGED << scanned, contents, idx, step, date, timestamp, chan, sink, sinkTime,
                    seen, badEntry >>

(* One line that ends without a sink call, lines 45-72.                    *)
Skip ==
    /\ pc = "loop" /\ idx <= Len(contents)
    /\ Rejected(contents[idx])
    /\ idx' = idx + 1
    /\ UNCHANGED << pc, scanned, contents, step, date, timestamp, chan, sink, sinkTime,
                    opened, result, seen, badEntry >>

(* One line that reaches line 74: the locals after the loops, lines 74-148. *)
Accept ==
    /\ pc = "loop" /\ idx <= Len(contents)
    /\ ~Rejected(contents[idx])
    /\ LET line_parts == SplitWhitespace(contents[idx])
       IN /\ date' = line_parts[1]
          /\ timestamp' = ParseFromStr(FormatDateTime(line_parts[1], line_parts[2])).secs
          /\ chan' = Extract(Decode(line_parts[10]).msg)
    /\ pc' = "emit" /\ step' = 1
    /\ UNCHANGED << scanned, contents, idx, sink, sinkTime, opened, result, seen, badEntry >>

Entry(c, ok) ==
    [op |-> c.op, name |-> c.name, val |-> c.val, time |-> sinkTime, line |-> idx, ok |-> ok]

(* After a call of the record: the next call, or the next line.            *)
Advance(ok) ==
    LET last == step = Len(EmitPlan(date, timestamp, chan))
    IN /\ pc' = AfterCall(ok, IF last THEN "loop" ELSE "emit")
       /\ result' = IF ok THEN result ELSE "err"
       /\ IF ok /\ last
          THEN /\ idx' = idx + 1 /\ step' = 1
               /\ date' = << >> /\ timestamp' = 0 /\ chan' = NoChannels
          ELSE /\ idx' = idx /\ step' = IF ok THEN step + 1 ELSE step
               /\ UNCHANGED << date, timestamp, chan >>

(* rec.log_static(..)?, lines 150-156.                                     *)
EmitLogStatic ==
    /\ pc = "emit"
    /\ LET c == EmitPlan(date, timestamp, chan)[step]
       IN /\ c.op = "log_static"
          /\ \E ok \in BOOLEAN :
               /\ sink' = Append(sink, Entry(c, ok))
               /\ Advance(ok)
    /\ UNCHANGED << scanned, contents, sinkTime, opened, seen, badEntry >>

(* rec.set_timestamp_secs_since_epoch("time", ..), line 158: no result.    *)
EmitSetTime ==
    /\ pc = "emit"
    /\ LET c == EmitPlan(date, timestamp, chan)[step]
       IN /\ c.op = "set_time"
          /\ sinkTime' = c.val
          /\ sink' = Append(sink, [Entry(c, TRUE) EXCEPT !.time = c.val])
    /\ Advance(TRUE)
    /\ UNCHANGED << scanned, contents, opened, seen, badEntry >>

(* rec.log(.., &Scalars::single(..))?, lines 159-207.                      *)
EmitLog ==
    /\ pc = "emit"
    /\ LET c == EmitPlan(date, timestamp, chan)[step]
       IN /\ c.op = "log"
          /\ \E ok \in BOOLEAN :
               /\ sink' = Append(sink, Entry(c, ok))
               /\ Advance(ok)
    /\ UNCHANGED << scanned, contents, sinkTime, opened, seen, badEntry >>

(* The for loop of line 45 is over: Ok(()), line 211.                      *)
Finish ==
    /\ pc = "loop" /\ idx > Len(contents)
    /\ pc' = "done" /\ result' = "ok"
    /\ UNCHANGED << scanned, contents, idx, step, date, timestamp, chan, sink, sinkTime,
                    opened, seen, badEntry >>

Next ==
    \/ ScanFile /\ UNCHANGED xVars
    \/ ScanReadError /\ UNCHANGED xVars
    \/ ScanGlobError /\ UNCHANGED xVars
    \/ ScanEnd /\ UNCHANGED xVars
    \/ Spawn /\ UNCHANGED xVars
    \/ Skip /\ UNCHANGED xVars
    \/ Accept /\ UNCHANGED xVars
    \/ EmitLogStatic /\ UNCHANGED xVars
    \/ EmitSetTime /\ UNCHANGED xVars
    \/ EmitLog /\ UNCHANGED xVars
    \/ Finish /\ UNCHANGED xVars

Spec == Init /\ [][Next]_vars

(* The extractor on its own, lines 88-148: the loops walk a decoded        *)
(* message one sampled value at a time; xmsg is the part of the message    *)
(* walked so far, xchan the locals at that point.  Every message of at     *)
(* most MaxSamples sampled values, cut into MeterValue entries in any way, *)
(* is walked.                                                              *)
RECURSIVE NumSamples(_)
NumSamples(mvs) ==
    IF mvs = << >> THEN 0 ELSE Len(Head(mvs).sampled_value) + NumSamples(Tail(mvs))

XInit ==
    /\ RunIdle("off")
    /\ xmsg = Msg(<< >>) /\ xchan = NoChannels /\ xplan = << >> /\ xpc = "walk"

(* The outer loop enters the next MeterValue, line 88.                     *)
XMeterValue ==
    /\ xpc = "walk" /\ NumSamples(xmsg.meter_value) < MaxSamples
    /\ IF xmsg.meter_value = << >> THEN TRUE
       ELSE xmsg.meter_value[Len(xmsg.meter_value)].sampled_value # << >>
    /\ xmsg' = Msg(Append(xmsg.meter_value, MV(<< >>)))
    /\ UNCHANGED << xchan, xplan, xpc >>

(* The inner loop takes the next SampledValue of that MeterValue, line 89. *)
XSample ==
    /\ xpc = "walk" /\ NumSamples(xmsg.meter_value) < MaxSamples
    /\ xmsg.meter_value # << >>
    /\ \E sv \in SampledValues :
         /\ xmsg' = Msg([xmsg.meter_value EXCEPT
                           ![Len(xmsg.meter_value)] = MV(Append(@.sampled_value, sv))])
         /\ xchan' = ApplySample(xchan, sv)
    /\ UNCHANGED << xplan, xpc >>

XNext ==
    \/ XMeterValue /\ UNCHANGED runVars
    \/ XSample /\ UNCHANGED runVars

SpecExtract == XInit /\ [][XNext]_vars

(* The emission on its own, lines 150-207: the calls made for a record of  *)
(* a line dated Date1 Time1, from any values of the ten locals.            *)
EInit ==
    /\ RunIdle("off")
    /\ xmsg = Msg(<< >>) /\ xplan = << >> /\ xpc = "extracted"
    /\ xchan \in [Channels -> PowerLocals]
    /\ \A c \in Channels \ PowerChannels : xchan[c] \in OtherLocals

EEmit ==
    /\ xpc = "extracted"
    /\ xplan' = EmitPlan(Date1, ParseFromStr(FormatDateTime(Date1, Time1)).secs, xchan)
    /\ xpc' = "emitted"
    /\ UNCHANGED << xmsg, xchan >>

ENext == EEmit /\ UNCHANGED runVars

SpecEmit == EInit /\ [][ENext]_vars

----------------------------------------------------------------------------
(* What the properties below are stated in.                                *)

(* The fields of a line and the three conditions on it.                    *)
NumWhitespace(line) == Cardinality({ i \in 1..Len(line) : IsWhitespace(line[i]) })
FieldOf(line, k) == SplitWhitespace(line)[k]
StampOf(line) == ParseFromStr(FieldOf(line, 1) \o << Sp >> \o FieldOf(line, 2) \o << Sp, Utc >>)
Passes(line) ==
    /\ NumWhitespace(line) + 1 = 10
    /\ StampOf(line).ok
    /\ Decode(FieldOf(line, 10)).ok

(* The calls a passing line is expected to lead to.                        *)
CallsOf(line) ==
    EmitPlan(FieldOf(line, 1), StampOf(line).secs, Extract(Decode(FieldOf(line, 10)).msg))

(* The sink calls made for line i, in the order they were made.            *)
SinkOf(i) == SelectSeq(sink, LAMBDA e : e.line = i)
HasCalls(i) == \E k \in 1..Len(sink) : sink[k].line = i
Emitted(i) == LET so == SinkOf(i) IN Len(so) = 13 /\ \A k \in 1..13 : so[k].ok

(* The lines of the files read, files in discovery order.                  *)
RECURSIVE AllLines(_)
AllLines(texts) ==
    IF texts = << >> THEN << >> ELSE SplitNewline(Head(texts)) \o AllLines(Tail(texts))

FixedNames ==
    {"current/import/L1", "current/import/L2", "current/offered", "power/offered",
     "voltage/L1", "voltage/L2", "voltage/L3",
     "power/active/import/L1", "power/active/import/L2", "power/active/import/L3",
     "power/active/import/sum"}

(* C1: a line leads to sink calls if and only if it has exactly 10 fields  *)
(* (9 whitespace characters), its first two fields parse as a timestamp    *)
(* and its field 9 decodes as MeterValues; a line failing one of them      *)
(* causes no call and no error (an error comes only from a failed sink     *)
(* call, a panic only from the scan), and the loop reaches every line.     *)
C1_LineFilter ==
    /\ \A i \in 1..Len(contents) :
         /\ HasCalls(i) => Passes(contents[i])
         /\ (pc \in {"loop", "emit", "done", "failed"} /\ i < idx)
              => (HasCalls(i) <=> Passes(contents[i]))
    /\ result = "err" =>
         /\ pc = "failed"
         /\ opened => (sink # << >> /\ ~sink[Len(sink)].ok)
    /\ result = "panic" => (pc = "panicked" /\ ~opened)
    /\ pc = "done" => (idx = Len(contents) + 1 /\ result = "ok")

(* C1 witness: a finished run in which a rejected line of each kind is     *)
(* followed by a line that was emitted.                                    *)
C1_Witness ==
    /\ pc = "done"
    /\ \E i, j, k, l \in 1..Len(contents) :
         /\ i < l /\ j < l /\ k < l /\ Emitted(l)
         /\ NumWhitespace(contents[i]) + 1 # 10
         /\ NumWhitespace(contents[j]) + 1 = 10 /\ ~StampOf(contents[j]).ok
         /\ NumWhitespace(contents[k]) + 1 = 10 /\ StampOf(contents[k]).ok
         /\ ~Decode(FieldOf(contents[k], 10)).ok

(* C3 (as claimed): every emitted record makes exactly one scalar write to *)
(* each of the eleven fixed channel names.                                 *)
C3_FixedChannelNames ==
    \A i \in 1..Len(contents) :
        Emitted(i) =>
          \A n \in FixedNames :
              Cardinality({ k \in 1..Len(sink) :
                              sink[k].line = i /\ sink[k].op = "log"
                                /\ sink[k].name = Literal(n) }) = 1

(* C4 (as claimed): every write made for a record, the static one          *)
(* included, is made while the sink's time is the record's timestamp.      *)
C4_TimeBeforeAnyWrite ==
    \A k \in 1..Len(sink) :
        sink[k].op \in {"log_static", "log"}
          => sink[k].time = StampOf(contents[sink[k].line]).secs

(* C4 (amended): every scalar write (rec.log) is made while the sink's     *)
(* time is the timestamp of the line the value was extracted from; the     *)
(* static write of the record comes before the time is set.                *)
C4_TimeBeforeScalarWrites ==
    \A k \in 1..Len(sink) :
        /\ sink[k].op = "log" => sink[k].time = StampOf(contents[sink[k].line]).secs
        /\ sink[k].op = "set_time" => sink[k].val = StampOf(contents[sink[k].line]).secs

(* C4 witness: two records with different timestamps have been emitted.    *)
C4_Witness ==
    \E i, j \in 1..Len(contents) :
        /\ i < j /\ Emitted(i) /\ Emitted(j)
        /\ StampOf(contents[i]).secs # StampOf(contents[j]).secs

(* C8: a failed sink call is the last call ever made, and the run has      *)
(* ended with the error; a failed spawn leaves no call at all.             *)
C8_FailFast ==
    /\ \A k \in 1..Len(sink) :
         ~sink[k].ok => (k = Len(sink) /\ pc = "failed" /\ result = "err")
    /\ pc = "failed" => result = "err"
    /\ (pc = "failed" /\ ~opened) => sink = << >>

(* C8 witness: a scalar write failed in the middle of a record while a     *)
(* later line passes the filters.                                          *)
C8_Witness ==
    /\ pc = "failed" /\ sink # << >>
    /\ ~sink[Len(sink)].ok /\ sink[Len(sink)].op = "log"
    /\ Len(SinkOf(idx)) \in 4..12
    /\ \E j \in (idx + 1)..Len(contents) : Passes(contents[j])

(* C9 (as claimed): once an entry turned out unreadable (glob error or     *)
(* failed read) the sink is never opened and no call is made.              *)
C9_UnreadableStopsRun == badEntry => (~opened /\ sink = << >>)

(* C10: contents holds the lines of the files in discovery order; the      *)
(* calls in the sink are those of the passing lines, line after line in    *)
(* input order, each line's calls together and in program order; a         *)
(* finished run has emitted every passing line.                            *)
C10_InputOrder ==
    opened =>
      LET input == AllLines(seen)
      IN /\ contents = input
         /\ \A k \in 1..(Len(sink) - 1) : sink[k].line <= sink[k + 1].line
         /\ \A i \in 1..Len(input) :
              LET so == SinkOf(i)
                  calls == CallsOf(input[i])
              IN /\ so # << >> => Passes(input[i])
                 /\ Len(so) <= 13
                 /\ \A k \in 1..Len(so) :
                      /\ so[k].op = calls[k].op
                      /\ so[k].name = calls[k].name
                      /\ so[k].val = calls[k].val
                 /\ (i < idx /\ Passes(input[i])) => (Len(so) = 13 /\ \A k \in 1..13 : so[k].ok)
         /\ \A k \in 1..Len(sink) : sink[k].line \in 1..Len(input)
         /\ pc = "done" => idx = Len(input) + 1

(* C10 witness: a finished run over two files that emitted a record from   *)
(* each, with a rejected line between them.                                *)
C10_Witness ==
    /\ pc = "done" /\ Len(seen) = 2
    /\ \E i, j, l \in 1..Len(contents) :
         /\ i < j /\ j < l /\ Emitted(i) /\ ~HasCalls(j) /\ Emitted(l)
         /\ i <= Len(SplitNewline(seen[1])) /\ l > Len(SplitNewline(seen[1]))
         /\ contents[i] # contents[l]

----------------------------------------------------------------------------
(* The extractor.                                                          *)

(* The dispatch table: the local a (measurand, phase) pair is written to,  *)
(* "none" for a pair of no row.                                            *)
Table(m, p) ==
    CASE m = "CurrentImport" /\ p = "L1" -> "current_import_l1"
      [] m = "CurrentImport" /\ p = "L2" -> "current_import_l2"
      [] m = "CurrentOffered" -> "current_offered"
      [] m = "PowerOffered" -> "power_offered"
      [] m = "PowerActiveImport" /\ p = "L1" -> "power_active_import_l1"
      [] m = "PowerActiveImport" /\ p = "L2" -> "power_active_import_l2"
      [] m = "PowerActiveImport" /\ p = "L3" -> "power_active_import_l3"
      [] m = "Voltage" /\ p = "L1" -> "voltage_l1"
      [] m = "Voltage" /\ p = "L2" -> "voltage_l2"
      [] m = "Voltage" /\ p = "L3" -> "voltage_l3"
      [] OTHER -> "none"

(* The sampled values walked so far, in message order.                     *)
RECURSIVE Flatten(_)
Flatten(mvs) ==
    IF mvs = << >> THEN << >> ELSE Head(mvs).sampled_value \o Flatten(Tail(mvs))
Walked == Flatten(xmsg.meter_value)
Without(svs, k) == SubSeq(svs, 1, k - 1) \o SubSeq(svs, k + 1, Len(svs))
(* The row of each of them.                                                *)
RowsOf(w) == [k \in 1..Len(w) |-> Table(w[k].measurand, w[k].phase)]
(* The timestamp of a line dated Date1 Time1.                              *)
Secs1 == ParseFromStr(FormatDateTime(Date1, Time1)).secs

(* C2: a local is set exactly when a sampled value of the message has a    *)
(* pair of its row, its value then comes from one of those sampled values, *)
(* and a local of no such sampled value is written as 0.0.                 *)
C2_DispatchTable ==
    xpc = "walk" =>
      LET w == Walked
          row == RowsOf(w)
          hit == { row[k] : k \in 1..Len(w) }
      IN /\ \A c \in Channels :
              IF c \in hit THEN xchan[c].some
              ELSE ~xchan[c].some /\ UnwrapOr(xchan[c], 0) = 0
         /\ \A c \in hit \ {"none"} :
              \E k \in 1..Len(w) :
                  /\ row[k] = c
                  /\ xchan[c].v = (IF ParseF64(w[k].value).ok
                                   THEN ParseF64(w[k].value).v ELSE 0)

(* C2 witness: CurrentImport/L3 and a sampled value without measurand were *)
(* walked and left every local unset.                                      *)
C2_Witness ==
    /\ xpc = "walk" /\ Len(Walked) = 2
    /\ Walked[1].measurand = "CurrentImport" /\ Walked[1].phase = "L3"
    /\ Walked[2].measurand = "None" /\ Walked[2].phase = "L1"
    /\ \A c \in Channels : xchan[c] = None

(* C5: the value of a local is the coerced value of the last sampled value *)
(* of its row, in message order.                                           *)
C5_LastWins ==
    xpc = "walk" =>
      LET w == Walked
          row == RowsOf(w)
      IN \A k \in 1..Len(w) :
          (row[k] # "none" /\ \A j \in (k + 1)..Len(w) : row[j] # row[k])
            => xchan[row[k]] = Some(Coerce(w[k].value))

(* C5 witness: Voltage/L1 came twice, in two MeterValue entries, with      *)
(* different values, and the local holds the second.                       *)
C5_Witness ==
    /\ xpc = "walk" /\ Len(xmsg.meter_value) = 2
    /\ xmsg.meter_value[1].sampled_value = << SV("10.5", "Voltage", "L1") >>
    /\ xmsg.meter_value[2].sampled_value = << SV("abc", "Voltage", "L1") >>
    /\ xchan["voltage_l1"] = Some(0)

(* C6: for every sampled value of the message whose value does not parse:  *)
(* the record still makes its eleven scalar writes, the local of its row   *)
(* is written as 0.0 unless a later sampled value of the same row follows, *)
(* and every other local is what it would be without that sampled value.   *)
C6_UnparsableValue ==
    xpc = "walk" =>
      LET w == Walked
          row == RowsOf(w)
          plan == EmitPlan(Date1, Secs1, xchan)
      IN \A k \in 1..Len(w) :
          ~ParseF64(w[k].value).ok =>
            LET without == Extract(Msg(<< MV(Without(w, k)) >>))
            IN /\ Len(SelectSeq(plan, LAMBDA c : c.op = "log")) = 11
               /\ (row[k] # "none" /\ \A j \in (k + 1)..Len(w) : row[j] # row[k])
                    => UnwrapOr(xchan[row[k]], 0) = 0
               /\ IF row[k] = "none" THEN xchan = without
                  ELSE [xchan EXCEPT ![row[k]] = None] = [without EXCEPT ![row[k]] = None]

(* C6 witness: an unparsable Voltage/L2 value after a parsable one, beside *)
(* nothing else: the local went back to 0.0.                               *)
C6_Witness ==
    /\ xpc = "walk"
    /\ Walked = << SV("10.5", "Voltage", "L2"), SV("abc", "Voltage", "L2") >>
    /\ xchan["voltage_l2"] = Some(0)

----------------------------------------------------------------------------
(* The emission.                                                           *)

(* The value of the scalar write to the channel of that literal name.      *)
WrittenTo(plan, n) ==
    LET k == CHOOSE i \in 1..Len(plan) : plan[i].op = "log" /\ plan[i].name = Literal(n)
    IN plan[k].val

(* C7: the value written to power/active/import/sum is the sum of the      *)
(* values written to power/active/import/L1, L2 and L3 of that record.     *)
C7_PowerSum ==
    xpc = "emitted" =>
      /\ \A n \in {"power/active/import/L1", "power/active/import/L2",
                   "power/active/import/L3", "power/active/import/sum"} :
             Cardinality({ i \in 1..Len(xplan) :
                             xplan[i].op = "log" /\ xplan[i].name = Literal(n) }) = 1
      /\ WrittenTo(xplan, "power/active/import/sum")
           = WrittenTo(xplan, "power/active/import/L1")
               + WrittenTo(xplan, "power/active/import/L2")
               + WrittenTo(xplan, "power/active/import/L3")
      /\ WrittenTo(xplan, "power/active/import/L1") = UnwrapOr(xchan["power_active_import_l1"], 0)
      /\ WrittenTo(xplan, "power/active/import/L2") = UnwrapOr(xchan["power_active_import_l2"], 0)
      /\ WrittenTo(xplan, "power/active/import/L3") = UnwrapOr(xchan["power_active_import_l3"], 0)

(* C7 witness: L1 absent, L2 and L3 present with different values.         *)
C7_Witness ==
    /\ xpc = "emitted"
    /\ xchan["power_active_import_l1"] = None
    /\ xchan["power_active_import_l2"] = Some(70)
    /\ xchan["power_active_import_l3"] = Some(105)
    /\ WrittenTo(xplan, "power/active/import/sum") = 175

====
